---- MODULE Spec2Model ----
(***************************************************************************)
(* Model of app/app.py: a Flask application with three routes, started as  *)
(* the main program on the port named by the PORT environment variable.    *)
(*                                                                         *)
(* Two specifications are given.  Spec is the whole life of the process:   *)
(* the PORT value is any short string (or unset), the main block parses it *)
(* and binds, and the running server answers requests of any method and    *)
(* path, one connection at a time.  ConcSpec starts from a server that has *)
(* bound its port and answers GET requests to the defined routes on        *)
(* MaxConn connections at once; FairConcSpec adds the scheduling of the    *)
(* request threads.                                                        *)
(***************************************************************************)
EXTENDS Integers, Sequences, FiniteSets, TLC

VARIABLES
    env,        \* os.environ's PORT entry: [set |-> BOOLEAN, value |-> string as a sequence of characters]
    pc,         \* position of the main program: "main", "run", "serving", "exited"
    port,       \* the local `port` of the main block: <<>> before line 31, <<p>> after
    listen,     \* the sockets the server listens on: {} or {[host |-> h, port |-> p]}
    failure,    \* the exception that ended the process, "none" while there is none
    exitCode,   \* <<>> while the process lives, <<code>> once it has exited
    url_map,    \* app.url_map: the rules registered on the Flask application
    conn        \* connection table: per connection, idle, a pending request, or a finished exchange

vars == <<env, pc, port, listen, failure, exitCode, url_map, conn>>

----------------------------------------------------------------------------
(* Bounds of the model. *)

\* Longest PORT value tried.
MaxEnvLen == 2
\* Connections served at once in ConcSpec.
MaxConn == 2

\* Characters PORT values are made of: two digits, a sign, white space, a letter.
EnvChars == {"8", "0", "-", " ", "x"}

RECURSIVE StringsUpTo(_)
StringsUpTo(n) ==
    IF n = 0 THEN {<<>>}
    ELSE LET shorter == StringsUpTo(n - 1)
         IN  shorter \cup {Append(s, ch) : s \in shorter, ch \in EnvChars}

EnvValues ==
    {[set |-> FALSE, value |-> <<>>]}
        \cup {[set |-> TRUE, value |-> s] : s \in StringsUpTo(MaxEnvLen)}

----------------------------------------------------------------------------
(* Python's int() on a string, base 10: surrounding white space is         *)
(* stripped, one sign may lead, and at least one digit must follow, only   *)
(* digits.  (Underscores between digits are not in EnvChars.)              *)

Whitespace == {" "}
Signs == {"+", "-"}
Digits == {"0", "1", "2", "3", "4", "5", "6", "7", "8", "9"}

DigitValue(ch) ==
    CASE ch = "0" -> 0 [] ch = "1" -> 1 [] ch = "2" -> 2 [] ch = "3" -> 3
      [] ch = "4" -> 4 [] ch = "5" -> 5 [] ch = "6" -> 6 [] ch = "7" -> 7
      [] ch = "8" -> 8 [] ch = "9" -> 9

RECURSIVE LStrip(_)
LStrip(s) ==
    IF s # <<>> /\ Head(s) \in Whitespace THEN LStrip(Tail(s)) ELSE s

RECURSIVE RStrip(_)
RStrip(s) ==
    IF s # <<>> /\ s[Len(s)] \in Whitespace
    THEN RStrip(SubSeq(s, 1, Len(s) - 1))
    ELSE s

Strip(s) == RStrip(LStrip(s))

Unsigned(s) ==
    LET t == Strip(s)
    IN  IF t # <<>> /\ Head(t) \in Signs THEN Tail(t) ELSE t

RECURSIVE DigitsValue(_)
DigitsValue(d) ==
    IF d = <<>> THEN 0
    ELSE 10 * DigitsValue(SubSeq(d, 1, Len(d) - 1)) + DigitValue(d[Len(d)])

\* int(s) raises ValueError unless this holds.
IsIntLiteral(s) ==
    LET d == Unsigned(s)
    IN  d # <<>> /\ \A i \in 1..Len(d) : d[i] \in Digits

IntOfString(s) ==
    LET t == Strip(s)
    IN  IF t # <<>> /\ Head(t) = "-"
        THEN 0 - DigitsValue(Unsigned(s))
        ELSE DigitsValue(Unsigned(s))

----------------------------------------------------------------------------
(* The main block, lines 30-32. *)

\* The default of os.environ.get('PORT', 5000).
DefaultPort == 5000

\* Variant: the loopback address, the framework's default host.
BindHostLoopback == "127.0.0.1"
\* host='0.0.0.0'
BindHost == "0.0.0.0"

\* The largest TCP port; bind() refuses a port outside 0..MaxPort.
MaxPort == 65535

\* Ports the operating system may hand out when asked to bind port 0.
EphemeralPorts == {49152, 49153}

\* The exit status of a process ended by an uncaught exception or by
\* sys.exit(1), which is how app.run gives up on a socket it cannot bind.
FailureExitStatus == 1

\* The ports a successful bind of port p may end on.
BoundPorts(p) == IF p = 0 THEN EphemeralPorts ELSE {p}

\* Variant: a main block that falls back to the default on a PORT it cannot parse.
ReadPortLenient ==
    /\ pc = "main"
    /\ port' = <<IF env.set /\ IsIntLiteral(env.value)
                 THEN IntOfString(env.value)
                 ELSE DefaultPort>>
    /\ pc' = "run"
    /\ UNCHANGED <<env, listen, failure, exitCode, url_map, conn>>

\* port = int(os.environ.get('PORT', 5000)): a ValueError ends the process.
ReadPort ==
    /\ pc = "main"
    /\ \/ /\ ~env.set
          /\ port' = <<DefaultPort>>
          /\ pc' = "run"
          /\ UNCHANGED <<failure, exitCode>>
       \/ /\ env.set
          /\ IsIntLiteral(env.value)
          /\ port' = <<IntOfString(env.value)>>
          /\ pc' = "run"
          /\ UNCHANGED <<failure, exitCode>>
       \/ /\ env.set
          /\ ~IsIntLiteral(env.value)
          /\ failure' = "ValueError"
          /\ exitCode' = <<FailureExitStatus>>
          /\ pc' = "exited"
          /\ UNCHANGED port
    /\ UNCHANGED <<env, listen, url_map, conn>>

\* app.run(host='0.0.0.0', port=port, debug=False): bind the socket and
\* serve forever, or end the process when the socket cannot be bound.  A
\* port outside 0..MaxPort is refused by bind() with OverflowError; any
\* other port may be refused by the operating system (OSError).
Run ==
    /\ pc = "run"
    /\ \/ /\ port[1] \notin 0..MaxPort
          /\ failure' = "OverflowError"
          /\ exitCode' = <<FailureExitStatus>>
          /\ pc' = "exited"
          /\ UNCHANGED listen
       \/ /\ port[1] \in 0..MaxPort
          /\ failure' = "OSError"
          /\ exitCode' = <<FailureExitStatus>>
          /\ pc' = "exited"
          /\ UNCHANGED listen
       \/ /\ port[1] \in 0..MaxPort
          /\ \E q \in BoundPorts(port[1]) :
                listen' = {[host |-> BindHost, port |-> q]}
          /\ pc' = "serving"
          /\ UNCHANGED <<failure, exitCode>>
    /\ UNCHANGED <<env, port, url_map, conn>>

----------------------------------------------------------------------------
(* Requests.  A path is the sequence of its segments, the pieces between   *)
(* its slashes: "/" is <<"", "">>, "/health" is <<"", "health">>,          *)
(* "/health/" is <<"", "health", "">>, "//info" is <<"", "", "info">>.     *)

RootPath == <<"", "">>
HealthPath == <<"", "health">>
InfoPath == <<"", "info">>

DefinedPaths == {RootPath, HealthPath, InfoPath}

Paths ==
    DefinedPaths \cup
        { <<"", "nope">>, <<"", "health", "">>, <<"", "", "info">>,
          <<"", "static", "x">> }

Methods == {"GET", "HEAD", "OPTIONS", "POST"}
Queries == {"", "status=down"}
Bodies == {"", "payload"}

Requests ==
    [method : Methods, path : Paths, query : Queries, body : Bodies]

\* GET requests to the three defined routes: bare, or with a query string
\* and a body.
GetRequests ==
    {req \in Requests :
        /\ req.method = "GET"
        /\ req.path \in DefinedPaths
        /\ (req.query = "") <=> (req.body = "")}

----------------------------------------------------------------------------
(* The application object and its routes, lines 4-28. *)

\* Variant: a rule that also takes POST.
RouteMethodsWithPost == {"GET", "HEAD", "OPTIONS", "POST"}
\* @app.route with no methods argument: GET, to which the framework adds
\* HEAD (every GET rule) and OPTIONS (automatic options).
RouteMethods == {"GET"} \cup {"HEAD"} \cup {"OPTIONS"}

\* @app.route(rule) on a view function: a rule for exactly that path.
\* `prefix` marks a rule ending in a <path:...> part.
Route(segments, endpoint) ==
    [segments |-> segments, prefix |-> FALSE, endpoint |-> endpoint,
     methods |-> RouteMethods]

\* Flask(__name__) registers /static/<path:filename> for its static folder.
StaticRoute ==
    [segments |-> <<"", "static">>, prefix |-> TRUE, endpoint |-> "static",
     methods |-> RouteMethods]

\* The files of the application's static folder: the repository has none.
StaticFiles == {}

\* The rules after the module has been executed down to line 28.
RegisteredRules ==
    { StaticRoute,
      Route(RootPath, "home"),
      Route(HealthPath, "health"),
      Route(InfoPath, "info") }

JsonBody(obj) == [kind |-> "json", obj |-> obj]
HtmlBody(text) == [kind |-> "html", text |-> text]
EmptyBody == [kind |-> "empty"]

\* Variant: the same response with the framework's default mimetype.
jsonifyAsHtml(obj) ==
    [status |-> 200, ctype |-> "text/html", body |-> JsonBody(obj),
     allow |-> {}]
\* jsonify(obj): a response carrying obj as JSON, status 200.
jsonify(obj) ==
    [status |-> 200, ctype |-> "application/json", body |-> JsonBody(obj),
     allow |-> {}]

\* What a view function returns: <<response>> or <<response, status>>.

\* Variant: home without its version field.
homeShort ==
    << jsonify([message |-> "Welcome to DevSecOps Container Security Demo!",
                status |-> "running"]) >>
home ==
    << jsonify([message |-> "Welcome to DevSecOps Container Security Demo!",
                status |-> "running",
                version |-> "1.0.0"]) >>

\* Variant: health with another explicit status.
healthCreated ==
    << jsonify([status |-> "healthy", service |-> "devsecops-demo"]), 201 >>
health ==
    << jsonify([status |-> "healthy", service |-> "devsecops-demo"]), 200 >>

\* Variant: info naming another pipeline.
infoOther ==
    << jsonify([app |-> "DevSecOps Demo Application",
                description |-> "Sample app for container vulnerability scanning",
                security |-> "Scanned with Trivy",
                pipeline |-> "GitLab CI"]) >>
info ==
    << jsonify([app |-> "DevSecOps Demo Application",
                description |-> "Sample app for container vulnerability scanning",
                security |-> "Scanned with Trivy",
                pipeline |-> "GitHub Actions"]) >>

----------------------------------------------------------------------------
(* The framework's handling of one request. *)

NotFound ==
    [status |-> 404, ctype |-> "text/html", body |-> HtmlBody("Not Found"),
     allow |-> {}]

MethodNotAllowed(allowed) ==
    [status |-> 405, ctype |-> "text/html",
     body |-> HtmlBody("Method Not Allowed"), allow |-> allowed]

\* The automatic answer to OPTIONS: the rule's methods, no body.
OptionsResponse(allowed) ==
    [status |-> 200, ctype |-> "text/html", body |-> EmptyBody,
     allow |-> allowed]

\* A view's return value made into the response: a status given beside the
\* response replaces the response's own.
make_response(rv) ==
    IF Len(rv) = 2 THEN [rv[1] EXCEPT !.status = rv[2]] ELSE rv[1]

RECURSIVE DropLeadingEmpty(_)
DropLeadingEmpty(segments) ==
    IF segments # <<>> /\ Head(segments) = ""
    THEN DropLeadingEmpty(Tail(segments))
    ELSE segments

\* The path the URL map matches: "/" + path.lstrip("/").  (Paths holds no
\* path with doubled slashes after the first segment, so the URL map's
\* redirect to the path with merged slashes is not reached.)
MatchedPath(segments) ==
    LET rest == DropLeadingEmpty(segments)
    IN  IF rest = <<>> THEN RootPath ELSE <<"">> \o rest

\* Variant: every rule matches any path it is a prefix of.
RulePathMatchesAnyPrefix(rule, segments) ==
    /\ Len(segments) >= Len(rule.segments)
    /\ SubSeq(segments, 1, Len(rule.segments)) = rule.segments
\* Whether the rule's path matches: the same segments (a rule without a
\* trailing slash does not match the path with one), or, for a prefix
\* rule, the rule's segments followed by a non-empty rest.
RulePathMatches(rule, segments) ==
    IF rule.prefix
    THEN /\ Len(segments) > Len(rule.segments)
         /\ SubSeq(segments, 1, Len(rule.segments)) = rule.segments
         /\ segments[Len(rule.segments) + 1] # ""
    ELSE segments = rule.segments

\* The name of the file a request of the static rule asks for.
StaticFileName(segments) == SubSeq(segments, 3, Len(segments))

\* Variant: a view that echoes the query string when there is one.
viewIgnoresNothing(endpoint, req) ==
    IF req.query # ""
    THEN << jsonify([status |-> req.query]) >>
    ELSE CASE endpoint = "home" -> home
           [] endpoint = "health" -> health
           [] endpoint = "info" -> info
\* The view function registered for an endpoint, called with no argument:
\* it does not read the request.
view(endpoint, req) ==
    CASE endpoint = "home" -> home
      [] endpoint = "health" -> health
      [] endpoint = "info" -> info

\* The response and the view function that was called for it ("none" when
\* none was).
Dispatch(rules, req) ==
    LET path == MatchedPath(req.path)
        onPath == {r \in rules : RulePathMatches(r, path)}
        matched == {r \in onPath : req.method \in r.methods}
    IN  IF onPath = {}
        THEN [resp |-> NotFound, called |-> "none"]
        ELSE IF matched = {}
        THEN [resp |-> MethodNotAllowed(UNION {r.methods : r \in onPath}),
              called |-> "none"]
        ELSE LET rule == CHOOSE r \in matched : TRUE
             IN  IF req.method = "OPTIONS"
                 THEN [resp |-> OptionsResponse(rule.methods),
                       called |-> "none"]
                 ELSE IF rule.endpoint = "static"
                 THEN [resp |-> IF StaticFileName(path) \in StaticFiles
                                THEN [status |-> 200,
                                      ctype |-> "application/octet-stream",
                                      body |-> HtmlBody("file"),
                                      allow |-> {}]
                                ELSE NotFound,
                       called |-> "static"]
                 ELSE [resp |-> make_response(view(rule.endpoint, req)),
                       called |-> rule.endpoint]

\* What goes on the wire: the answer to HEAD keeps the headers and status
\* and drops the body.
WireResponse(req, resp) ==
    IF req.method = "HEAD" THEN [resp EXCEPT !.body = EmptyBody] ELSE resp

----------------------------------------------------------------------------
(* Connections. *)

Idle == [st |-> "idle"]
Pending(req) == [st |-> "pending", req |-> req]
Done(req, d) ==
    [st |-> "done", req |-> req, resp |-> WireResponse(req, d.resp),
     called |-> d.called]

IsPending(c) == conn[c].st = "pending"
IsDone(c) == conn[c].st = "done"

\* A request arrives on a free connection of the listening server.
Receive(c) ==
    /\ pc = "serving"
    /\ conn[c] = Idle
    /\ \E req \in Requests : conn' = [conn EXCEPT ![c] = Pending(req)]
    /\ UNCHANGED <<env, pc, port, listen, failure, exitCode, url_map>>

\* A GET request to a defined route arrives on a free connection.
ReceiveGet(c) ==
    /\ pc = "serving"
    /\ conn[c] = Idle
    /\ \E req \in GetRequests : conn' = [conn EXCEPT ![c] = Pending(req)]
    /\ UNCHANGED <<env, pc, port, listen, failure, exitCode, url_map>>

\* Variant: a view that waits until no other request is pending.
CanServeAlone(c) ==
    /\ IsPending(c)
    /\ \A d \in DOMAIN conn \ {c} : ~IsPending(d)
\* The request's thread can run its view function: the views wait for
\* nothing, and app.run serves each request on a thread of its own.
CanServe(c) == IsPending(c)

\* The request's thread answers it.
Serve(c) ==
    /\ pc = "serving"
    /\ CanServe(c)
    /\ conn' = [conn EXCEPT
                  ![c] = Done(conn[c].req, Dispatch(url_map, conn[c].req))]
    /\ UNCHANGED <<env, pc, port, listen, failure, exitCode, url_map>>

\* The answered connection is closed.
Close(c) ==
    /\ IsDone(c)
    /\ conn' = [conn EXCEPT ![c] = Idle]
    /\ UNCHANGED <<env, pc, port, listen, failure, exitCode, url_map>>

----------------------------------------------------------------------------
(* Specifications. *)

Init ==
    /\ env \in EnvValues
    /\ pc = "main"
    /\ port = <<>>
    /\ listen = {}
    /\ failure = "none"
    /\ exitCode = <<>>
    /\ url_map = RegisteredRules
    /\ conn = [c \in {1} |-> Idle]

Next ==
    \/ ReadPort
    \/ Run
    \/ \E c \in DOMAIN conn : Receive(c)
    \/ \E c \in DOMAIN conn : Serve(c)
    \/ \E c \in DOMAIN conn : Close(c)

Spec == Init /\ [][Next]_vars

\* The server started with PORT unset and bound the default port.
ConcInit ==
    /\ env = [set |-> FALSE, value |-> <<>>]
    /\ pc = "serving"
    /\ port = <<DefaultPort>>
    /\ listen = {[host |-> BindHost, port |-> DefaultPort]}
    /\ failure = "none"
    /\ exitCode = <<>>
    /\ url_map = RegisteredRules
    /\ conn = [c \in 1..MaxConn |-> Idle]

ConcNext ==
    \/ \E c \in DOMAIN conn : ReceiveGet(c)
    \/ \E c \in DOMAIN conn : Serve(c)
    \/ \E c \in DOMAIN conn : Close(c)

ConcSpec == ConcInit /\ [][ConcNext]_vars

\* Every request has a thread of its own, and the threads are scheduled.
FairConcSpec ==
    ConcSpec /\ \A c \in 1..MaxConn : WF_vars(Serve(c))

----------------------------------------------------------------------------
(* The properties. *)

Conns == DOMAIN conn

\* A finished exchange on connection c for a request of method m to path p.
Answered(c, m, p) ==
    /\ IsDone(c)
    /\ conn[c].req.method = m
    /\ conn[c].req.path = p

NoRequestSeen == \A c \in Conns : conn[c] = Idle

\* C1: every GET request to "/" is answered with status 200 and exactly the
\* object {message, status, version} with the three given values.
C1_HomeResponse ==
    \A c \in Conns :
        Answered(c, "GET", RootPath) =>
            /\ conn[c].resp.status = 200
            /\ conn[c].resp.body =
                 [kind |-> "json",
                  obj |-> [message |-> "Welcome to DevSecOps Container Security Demo!",
                           status |-> "running",
                           version |-> "1.0.0"]]

C1_Witness ==
    \E c \in Conns : Answered(c, "GET", RootPath) /\ conn[c].req.query # ""

\* C2: every GET request to "/health" is answered with status 200 and
\* exactly the object {status: "healthy", service: "devsecops-demo"}.
C2_HealthResponse ==
    \A c \in Conns :
        Answered(c, "GET", HealthPath) =>
            /\ conn[c].resp.status = 200
            /\ conn[c].resp.body =
                 [kind |-> "json",
                  obj |-> [status |-> "healthy", service |-> "devsecops-demo"]]

C2_Witness ==
    \E c \in Conns : Answered(c, "GET", HealthPath) /\ conn[c].req.body # ""

\* C3: every GET request to "/info" is answered with status 200 and exactly
\* the object {app, description, security, pipeline} with the four given
\* values.
C3_InfoResponse ==
    \A c \in Conns :
        Answered(c, "GET", InfoPath) =>
            /\ conn[c].resp.status = 200
            /\ conn[c].resp.body =
                 [kind |-> "json",
                  obj |-> [app |-> "DevSecOps Demo Application",
                           description |-> "Sample app for container vulnerability scanning",
                           security |-> "Scanned with Trivy",
                           pipeline |-> "GitHub Actions"]]

C3_Witness ==
    \E c \in Conns :
        /\ Answered(c, "GET", InfoPath)
        /\ env.set
        /\ conn[c].req.query # ""
        /\ conn[c].req.body # ""

\* The port the main block asks for, once PORT has been accepted.
RequestedPort == IF env.set THEN IntOfString(env.value) ELSE 5000

\* C4, as claimed: with PORT set to an integer p the server listens on port
\* p, with PORT unset on port 5000, always on 0.0.0.0, and the listening
\* socket never changes afterwards.
C4_Original ==
    [][ /\ pc' = "serving" =>
              listen' = {[host |-> "0.0.0.0", port |-> RequestedPort']}
        /\ pc = "serving" => listen' = listen ]_vars

\* C4, amended: with PORT set to an integer p in 1..65535 the server, when
\* it can bind, listens on port p; with PORT unset on port 5000; with PORT
\* set to 0 on a port in 1..65535 that the operating system picks; always
\* on 0.0.0.0, and the listening socket never changes afterwards.
C4_BindsConfiguredPort ==
    [][ /\ pc' = "serving" =>
              /\ Cardinality(listen') = 1
              /\ \A sock \in listen' :
                    /\ sock.host = "0.0.0.0"
                    /\ sock.port >= 1 /\ sock.port <= 65535
                    /\ RequestedPort' # 0 => sock.port = RequestedPort'
        /\ pc = "serving" => listen' = listen ]_vars

C4_Witness ==
    /\ pc = "serving"
    /\ env.set
    /\ env.value = <<"8", "0">>
    /\ listen = {[host |-> "0.0.0.0", port |-> 80]}
    /\ \E c \in Conns : IsDone(c)

\* The three view functions.
Views == {"home", "health", "info"}

Collapsed(p) ==
    LET first == CHOOSE i \in 1..(Len(p) + 1) :
                     /\ \A j \in 1..(i - 1) : p[j] = ""
                     /\ i <= Len(p) => p[i] # ""
    IN  IF first > Len(p) THEN <<"", "">>
        ELSE <<"">> \o SubSeq(p, first, Len(p))

UnderStatic(p) == Len(p) >= 3 /\ p[2] = "static"

BindFailures == {"OSError", "OverflowError"}

\* C6, as claimed: the process ends only because the port cannot be bound,
\* then with a non-zero status and no request served; no PORT value and no
\* request leads to an error.
C6_Original ==
    [][ /\ pc' = "exited" =>
              /\ failure' \in BindFailures
              /\ exitCode' # <<>> /\ exitCode'[1] # 0
              /\ NoRequestSeen'
        /\ pc' # "exited" => failure' = "none" /\ exitCode' = <<>>
        /\ pc = "serving" => pc' = "serving" ]_vars

\* C6, amended: the process ends in exactly two ways, both before any
\* request is served and both with a non-zero status: PORT is set to a
\* value int() rejects (ValueError, always, before any bind), or the port
\* cannot be bound.  A server that has bound its port never ends or fails
\* because of a request.
C6_FailureModes ==
    [][ /\ pc' = "exited" =>
              /\ failure' \in BindFailures \cup {"ValueError"}
              /\ failure' = "ValueError" <=> pc = "main"
              /\ exitCode' # <<>> /\ exitCode'[1] # 0
              /\ listen' = {}
              /\ NoRequestSeen'
        /\ (pc = "main" /\ env.set
              /\ \E i \in 1..Len(env.value) : env.value[i] \in {"x"})
              => (pc' = "exited" /\ failure' = "ValueError")
        /\ (pc = "main" /\ ~env.set) => pc' = "run"
        /\ pc' # "exited" => failure' = "none" /\ exitCode' = <<>>
        /\ pc = "serving" => pc' = "serving" ]_vars

C6_Witness ==
    /\ pc = "exited"
    /\ failure = "ValueError"
    /\ env.value = <<"8", "x">>

\* C7, as claimed: a request to one of the three paths with a method other
\* than GET is not dispatched to the view function and does not get the
\* route's 200 response.
C7_Original ==
    \A c \in Conns :
        (IsDone(c) /\ conn[c].req.path \in DefinedPaths
                   /\ conn[c].req.method # "GET") =>
            /\ conn[c].called = "none"
            /\ ~(conn[c].resp.status = 200
                   /\ conn[c].resp.ctype = "application/json")

\* The view function of a defined path.
ViewOf(p) ==
    CASE p = RootPath -> "home" [] p = HealthPath -> "health"
      [] p = InfoPath -> "info"

\* C7, amended: each of the three routes accepts GET and, by the
\* framework's defaults, HEAD and OPTIONS.  HEAD is dispatched to the
\* route's view function and gets its status and headers without the body;
\* OPTIONS is answered 200 with the allowed methods without calling the
\* view function; any other method gets 405, the view function is not
\* called and no JSON body is sent.
C7_MethodsOfRoutes ==
    \A c \in Conns :
        (IsDone(c) /\ conn[c].req.path \in DefinedPaths) =>
            CASE conn[c].req.method = "GET" ->
                    /\ conn[c].called = ViewOf(conn[c].req.path)
                    /\ conn[c].resp.status = 200
                    /\ conn[c].resp.body.kind = "json"
              [] conn[c].req.method = "HEAD" ->
                    /\ conn[c].called = ViewOf(conn[c].req.path)
                    /\ conn[c].resp.status = 200
                    /\ conn[c].resp.ctype = "application/json"
                    /\ conn[c].resp.body.kind = "empty"
              [] conn[c].req.method = "OPTIONS" ->
                    /\ conn[c].called = "none"
                    /\ conn[c].resp.status = 200
                    /\ conn[c].resp.allow = {"GET", "HEAD", "OPTIONS"}
                    /\ conn[c].resp.body.kind = "empty"
              [] OTHER ->
                    /\ conn[c].called = "none"
                    /\ conn[c].resp.status = 405
                    /\ conn[c].resp.allow = {"GET", "HEAD", "OPTIONS"}
                    /\ conn[c].resp.body.kind # "json"

C7_Witness ==
    \E c \in Conns :
        /\ Answered(c, "POST", HealthPath)
        /\ conn[c].resp.status = 405

\* C8: the status and body answered on a route are the same for every
\* request to it, whatever its query and body, whatever was served before
\* and whatever else is in flight; answering a request changes nothing of
\* the server's state.
C8_FixedResponses ==
    [][ /\ \A c, d \in Conns :
              (IsDone(c)' /\ IsDone(d)'
                 /\ conn'[c].req.path = conn'[d].req.path) =>
                  /\ conn'[c].resp.status = conn'[d].resp.status
                  /\ conn'[c].resp.body = conn'[d].resp.body
        /\ \A c \in Conns :
              (IsPending(c) /\ IsDone(c)') =>
                  /\ UNCHANGED <<env, pc, port, listen, failure, exitCode,
                                 url_map>>
                  /\ \A d \in Conns \ {c} : conn'[d] = conn[d] ]_vars

C8_Witness ==
    \E c, d \in Conns :
        /\ c # d
        /\ IsDone(c) /\ IsDone(d)
        /\ conn[c].req.path = conn[d].req.path
        /\ conn[c].req.query # conn[d].req.query
        /\ conn[c].req.body # conn[d].req.body

\* C9: the answer to a GET request to one of the three paths has
\* Content-Type application/json.
C9_JsonContentType ==
    \A c \in Conns :
        (IsDone(c) /\ conn[c].req.method = "GET"
                   /\ conn[c].req.path \in DefinedPaths) =>
            conn[c].resp.ctype = "application/json"

C9_Witness ==
    \E c \in Conns :
        /\ Answered(c, "GET", InfoPath)
        /\ conn[c].resp.ctype = "application/json"
        /\ ~env.set

\* C10: once the server has bound its port, every GET request received for
\* one of the three routes is eventually answered, whatever other requests
\* are in flight.
C10_EveryRequestAnswered ==
    \A c \in 1..MaxConn : IsPending(c) ~> IsDone(c)

C10_Witness ==
    \E c, d \in Conns :
        /\ c # d
        /\ IsDone(c)
        /\ IsPending(d)

====
